---- MODULE Spec2Model ----
(***************************************************************************)
(* CameraWidget of Endos.py: an endoscope viewer.  A 30 ms timer calls     *)
(* update_frame; three buttons and two sliders call the control handlers.  *)
(* Frames are matrices of BGR pixels, computed on as OpenCV computes.      *)
(***************************************************************************)
EXTENDS Integers, Sequences, FiniteSets, TLC

\* ---------------------------------------------------------------- bounds
FrameH == 4
FrameW == 5
NumFrames == 2
MaxWriters == 2
MaxDim == 6

\* ------------------------------------------------------ program constants
ZoomMin == 1
ZoomMax == 4
BrightMin == -100
BrightMax == 100
BrightTick == 10
NoWriter == 0
CoefBits == 11

NoFrame == <<>>
Paths == {"", "out"}
CoefScale == 2^CoefBits

VARIABLES
    is_frozen,       \* self.is_frozen
    last_frame,      \* self.last_frame (NoFrame for None)
    is_recording,    \* self.is_recording
    video_writer,    \* self.video_writer: index into writers, NoWriter for None
    zoom_factor,     \* self.zoom_factor
    brightness,      \* self.brightness
    record_btn,      \* text of self.record_btn
    freeze_btn,      \* text of self.freeze_btn
    writers,         \* every cv2.VideoWriter created so far
    cap_open,        \* self.cap not yet released
    closed,          \* closeEvent has run
    image_dialog,    \* capture_image is waiting in its Save Image dialog
    op,              \* the handler that ran last
    cap_read,        \* what it got from self.cap.read(): "none", "ok", "fail"
    shown,           \* the image it gave to self.label, NoFrame if none
    prompted,        \* it showed the Save Video dialog
    dialog_path,     \* the path its file dialog returned, "" if cancelled or none
    appended,        \* the frame it gave to video_writer.write, NoFrame if none
    appended_to,     \* the writer it wrote to
    saved,           \* the frame it gave to cv2.imwrite, NoFrame if none
    fz_count,        \* length of the current run of toggle_freeze calls, 1 or 2
    fz_snap          \* the fields and the world when that run began

fields == <<is_frozen, last_frame, is_recording, video_writer, zoom_factor,
            brightness, record_btn, freeze_btn>>
world == <<writers, cap_open, closed, image_dialog>>
effects == <<op, cap_read, shown, prompted, dialog_path, appended,
             appended_to, saved>>
history == <<fz_count, fz_snap>>
vars == <<fields, world, effects, history>>

\* ------------------------------------------------------------ arithmetic
Abs(n) == IF n < 0 THEN -n ELSE n
Min(a, b) == IF a < b THEN a ELSE b
Max(a, b) == IF a > b THEN a ELSE b

\* cvRound: to the nearest integer, ties to even; n >= 0, d > 0
cvRound(n, d) ==
    LET q == n \div d
        r == n % d
    IN  IF 2 * r > d THEN q + 1
        ELSE IF 2 * r = d THEN q + (q % 2)
        ELSE q

\* ---------------------------------------------------------------- frames
Height(frame) == Len(frame)
Width(frame) == Len(frame[1])

Sample(k, y, x, c) ==
    LET v == (k * 67 + (y * FrameW + x) * 41 + c * 85) % 256
    IN  IF v < 32 THEN 0 ELSE IF v > 223 THEN 255 ELSE v

DeviceFrame(k) ==
    [y \in 1..FrameH |-> [x \in 1..FrameW |-> [c \in 1..3 |-> Sample(k, y, x, c)]]]

DeviceFrames == {DeviceFrame(k) : k \in 1..NumFrames}
\* ------------------------------------------------------------ transforms
\* cv2.resize, INTER_LINEAR, one axis: the source index (from 0) and the
\* fixed-point weight of its right neighbour for destination index d
Tap(d, ssize, dsize) ==
    LET n == (2 * d + 1) * ssize - dsize
        den == 2 * dsize
    IN  IF n < 0 THEN [i |-> 0, a |-> 0]
        ELSE IF n \div den >= ssize - 1 THEN [i |-> ssize - 1, a |-> 0]
        ELSE [i |-> n \div den, a |-> cvRound((n % den) * CoefScale, den)]

\* the horizontal pass on one source row, channel c: a value scaled by 2^11
HResize(row, t, c) ==
    (CoefScale - t.a) * row[t.i + 1][c]
        + t.a * row[Min(t.i + 2, Len(row))][c]

\* the vertical pass, with the 8-bit fixed-point cast of the linear kernel
VResize(S0, S1, b) ==
    ((((CoefScale - b) * (S0 \div 16)) \div 65536)
        + ((b * (S1 \div 16)) \div 65536) + 2) \div 4

resize(src, dw, dh) ==
    LET sw == Width(src)
        sh == Height(src)
    IN  [y \in 1..dh |-> [x \in 1..dw |-> [c \in 1..3 |->
            LET ty == Tap(y - 1, sh, dh)
                tx == Tap(x - 1, sw, dw)
            IN  VResize(HResize(src[ty.i + 1], tx, c),
                        HResize(src[Min(ty.i + 2, sh)], tx, c), ty.a)]]]

\* crop_box anchored at the far corner instead of centred
crop_box_corner(frame) ==
    LET h == Height(frame)
        w == Width(frame)
        nh == h \div zoom_factor
        nw == w \div zoom_factor
    IN  [y1 |-> h - nh, x1 |-> w - nw, nh |-> nh, nw |-> nw]

\* lines 140-143: the region apply_zoom cuts out, rows and columns from 0
crop_box(frame) ==
    LET h == Height(frame)
        w == Width(frame)
        nh == h \div zoom_factor
        nw == w \div zoom_factor
    IN  [y1 |-> (h - nh) \div 2, x1 |-> (w - nw) \div 2, nh |-> nh, nw |-> nw]

\* apply_zoom that shows the crop without resizing it back
apply_zoom_cropped(frame) ==
    IF zoom_factor > 1
    THEN LET box == crop_box(frame)
         IN  [y \in 1..box.nh |-> [x \in 1..box.nw |->
                frame[box.y1 + y][box.x1 + x]]]
    ELSE frame

\* lines 138-146; cv2.resize raises on an empty crop, and no frame results
apply_zoom(frame) ==
    IF zoom_factor > 1
    THEN LET box == crop_box(frame)
             cropped == [y \in 1..box.nh |-> [x \in 1..box.nw |->
                            frame[box.y1 + y][box.x1 + x]]]
         IN  IF box.nh = 0 \/ box.nw = 0
             THEN NoFrame
             ELSE resize(cropped, Width(frame), Height(frame))
    ELSE frame

saturate_uchar(n) == Min(Max(n, 0), 255)

\* cv2.convertScaleAbs: |src * alpha + beta| saturated to a byte
convertScaleAbs(frame, alpha, beta) ==
    [y \in 1..Height(frame) |-> [x \in 1..Width(frame) |-> [c \in 1..3 |->
        saturate_uchar(Abs(frame[y][x][c] * alpha + beta))]]]

apply_brightness(frame) ==
    IF brightness # 0
    THEN convertScaleAbs(frame, 1, brightness)
    ELSE frame

\* cvtColor that leaves the channels in BGR order
cvtColor_bgr(frame) == frame

\* cv2.cvtColor(frame, COLOR_BGR2RGB)
cvtColor(frame) ==
    [y \in 1..Height(frame) |-> [x \in 1..Width(frame) |-> [c \in 1..3 |->
        frame[y][x][4 - c]]]]

\* ------------------------------------------------------------ the widget
Init ==
    /\ is_frozen = FALSE
    /\ last_frame = NoFrame
    /\ is_recording = FALSE
    /\ video_writer = NoWriter
    /\ zoom_factor = 1
    /\ brightness = 0
    /\ record_btn = "Start Recording"
    /\ freeze_btn = "Freeze Frame"
    /\ writers = <<>>
    /\ cap_open = TRUE
    /\ closed = FALSE
    /\ image_dialog = FALSE
    /\ op = "init"
    /\ cap_read = "none"
    /\ shown = NoFrame
    /\ prompted = FALSE
    /\ dialog_path = ""
    /\ appended = NoFrame
    /\ appended_to = NoWriter
    /\ saved = NoFrame
    /\ fz_count = 0
    /\ fz_snap = <<>>

\* a handler that touches neither the device, the label nor a file
NoEffects ==
    /\ cap_read' = "none"
    /\ shown' = NoFrame
    /\ prompted' = FALSE
    /\ dialog_path' = ""
    /\ appended' = NoFrame
    /\ appended_to' = NoWriter
    /\ saved' = NoFrame

NoFreezeRun ==
    /\ fz_count' = 0
    /\ fz_snap' = <<>>

\* ControlsUp without the Save Image dialog being modal
ControlsUp_not_modal == ~closed

\* the controls answer only while the window is up and no dialog is modal
ControlsUp == ~closed /\ ~image_dialog

\* reuse_last with the freeze test inverted
reuse_last_unfrozen == ~is_frozen /\ last_frame # NoFrame

\* line 73: the stored frame is used instead of the device
reuse_last == is_frozen /\ last_frame # NoFrame

\* read_failed with the failed read's None stored as the Current frame
read_failed_clears ==
    /\ last_frame' = NoFrame
    /\ UNCHANGED <<is_frozen, is_recording, video_writer, zoom_factor,
                   brightness, record_btn, freeze_btn, writers>>
    /\ shown' = NoFrame
    /\ prompted' = FALSE
    /\ dialog_path' = ""
    /\ appended' = NoFrame
    /\ appended_to' = NoWriter

\* lines 77-78: the read gave no frame
read_failed ==
    /\ UNCHANGED <<fields, writers>>
    /\ shown' = NoFrame
    /\ prompted' = FALSE
    /\ dialog_path' = ""
    /\ appended' = NoFrame
    /\ appended_to' = NoWriter

\* lines 86-92
render(frame) == shown' = cvtColor(frame)

VideoWriter(frame) ==
    [open |-> TRUE, by |-> "", size |-> <<Width(frame), Height(frame)>>]

release(w, who) == [writers EXCEPT ![w].open = FALSE, ![w].by = who]

\* record with the cancel branch leaving the recording state alone
record_stays_on(frame, out_path) ==
    IF is_recording
    THEN IF video_writer = NoWriter
         THEN /\ prompted' = TRUE
              /\ dialog_path' = out_path
              /\ IF out_path # ""
                 THEN /\ Len(writers) < MaxWriters
                      /\ writers' = Append(writers, VideoWriter(frame))
                      /\ video_writer' = Len(writers) + 1
                      /\ appended' = frame
                      /\ appended_to' = Len(writers) + 1
                      /\ UNCHANGED <<is_recording, record_btn>>
                 ELSE /\ appended' = NoFrame
                      /\ appended_to' = NoWriter
                      /\ UNCHANGED <<is_recording, record_btn, video_writer,
                                     writers>>
         ELSE /\ prompted' = FALSE
              /\ dialog_path' = ""
              /\ appended' = frame
              /\ appended_to' = video_writer
              /\ UNCHANGED <<is_recording, record_btn, video_writer, writers>>
    ELSE /\ prompted' = FALSE
         /\ dialog_path' = ""
         /\ appended' = NoFrame
         /\ appended_to' = NoWriter
         /\ UNCHANGED <<is_recording, record_btn, video_writer, writers>>

\* record without the test that a writer exists already
record_reopens(frame, out_path) ==
    IF is_recording
    THEN /\ prompted' = TRUE
         /\ dialog_path' = out_path
         /\ IF out_path # ""
            THEN /\ Len(writers) < MaxWriters
                 /\ writers' = Append(writers, VideoWriter(frame))
                 /\ video_writer' = Len(writers) + 1
                 /\ appended' = frame
                 /\ appended_to' = Len(writers) + 1
                 /\ UNCHANGED <<is_recording, record_btn>>
            ELSE /\ is_recording' = FALSE
                 /\ record_btn' = "Start Recording"
                 /\ appended' = NoFrame
                 /\ appended_to' = NoWriter
                 /\ UNCHANGED <<video_writer, writers>>
    ELSE /\ prompted' = FALSE
         /\ dialog_path' = ""
         /\ appended' = NoFrame
         /\ appended_to' = NoWriter
         /\ UNCHANGED <<is_recording, record_btn, video_writer, writers>>

\* record with the cancel branch leaving the button's text alone
record_stale_label(frame, out_path) ==
    IF is_recording
    THEN IF video_writer = NoWriter
         THEN /\ prompted' = TRUE
              /\ dialog_path' = out_path
              /\ IF out_path # ""
                 THEN /\ Len(writers) < MaxWriters
                      /\ writers' = Append(writers, VideoWriter(frame))
                      /\ video_writer' = Len(writers) + 1
                      /\ appended' = frame
                      /\ appended_to' = Len(writers) + 1
                      /\ UNCHANGED <<is_recording, record_btn>>
                 ELSE /\ is_recording' = FALSE
                      /\ appended' = NoFrame
                      /\ appended_to' = NoWriter
                      /\ UNCHANGED <<record_btn, video_writer, writers>>
         ELSE /\ prompted' = FALSE
              /\ dialog_path' = ""
              /\ appended' = frame
              /\ appended_to' = video_writer
              /\ UNCHANGED <<is_recording, record_btn, video_writer, writers>>
    ELSE /\ prompted' = FALSE
         /\ dialog_path' = ""
         /\ appended' = NoFrame
         /\ appended_to' = NoWriter
         /\ UNCHANGED <<is_recording, record_btn, video_writer, writers>>

\* lines 95-109, frame being the local variable of that name
record(frame, out_path) ==
    IF is_recording
    THEN IF video_writer = NoWriter
         THEN /\ prompted' = TRUE
              /\ dialog_path' = out_path
              /\ IF out_path # ""
                 THEN /\ Len(writers) < MaxWriters
                      /\ writers' = Append(writers, VideoWriter(frame))
                      /\ video_writer' = Len(writers) + 1
                      /\ appended' = frame
                      /\ appended_to' = Len(writers) + 1
                      /\ UNCHANGED <<is_recording, record_btn>>
                 ELSE /\ is_recording' = FALSE
                      /\ record_btn' = "Start Recording"
                      /\ appended' = NoFrame
                      /\ appended_to' = NoWriter
                      /\ UNCHANGED <<video_writer, writers>>
         ELSE /\ prompted' = FALSE
              /\ dialog_path' = ""
              /\ appended' = frame
              /\ appended_to' = video_writer
              /\ UNCHANGED <<is_recording, record_btn, video_writer, writers>>
    ELSE /\ prompted' = FALSE
         /\ dialog_path' = ""
         /\ appended' = NoFrame
         /\ appended_to' = NoWriter
         /\ UNCHANGED <<is_recording, record_btn, video_writer, writers>>

\* lines 81-109
process(frame) ==
    LET out == apply_brightness(apply_zoom(frame))
    IN  /\ render(out)
        /\ \E out_path \in Paths : record(out, out_path)

\* lines 72-109; the timer of line 58 is never stopped
update_frame ==
    /\ op' = "update_frame"
    /\ saved' = NoFrame
    /\ NoFreezeRun
    /\ UNCHANGED <<is_frozen, zoom_factor, brightness, freeze_btn>>
    /\ UNCHANGED <<cap_open, closed, image_dialog>>
    /\ IF reuse_last
       THEN /\ cap_read' = "none"
            /\ UNCHANGED last_frame
            /\ process(last_frame)
       ELSE \E ret \in (IF cap_open THEN BOOLEAN ELSE {FALSE}),
               frame \in DeviceFrames :
                IF ret
                THEN /\ cap_read' = "ok"
                     /\ last_frame' = frame
                     /\ process(frame)
                ELSE /\ cap_read' = "fail"
                     /\ read_failed

\* capture_image without the test that a frame is stored
capture_image_always ==
    /\ ControlsUp
    /\ op' = "capture_image"
    /\ image_dialog' = TRUE
    /\ NoEffects
    /\ NoFreezeRun
    /\ UNCHANGED <<fields, writers, cap_open, closed>>

\* lines 111-115: the button is pressed
capture_image ==
    /\ ControlsUp
    /\ op' = "capture_image"
    /\ image_dialog' = (last_frame # NoFrame)
    /\ NoEffects
    /\ NoFreezeRun
    /\ UNCHANGED <<fields, writers, cap_open, closed>>

\* capture_image_return that writes the frame as it is displayed
capture_image_return_display ==
    /\ image_dialog
    /\ op' = "capture_image_return"
    /\ image_dialog' = FALSE
    /\ \E out_path \in Paths :
        /\ dialog_path' = out_path
        /\ saved' = IF out_path # ""
                    THEN apply_brightness(apply_zoom(last_frame))
                    ELSE NoFrame
    /\ cap_read' = "none"
    /\ shown' = NoFrame
    /\ prompted' = FALSE
    /\ appended' = NoFrame
    /\ appended_to' = NoWriter
    /\ NoFreezeRun
    /\ UNCHANGED <<fields, writers, cap_open, closed>>

\* lines 115-117: the Save Image dialog returns
capture_image_return ==
    /\ image_dialog
    /\ op' = "capture_image_return"
    /\ image_dialog' = FALSE
    /\ \E out_path \in Paths :
        /\ dialog_path' = out_path
        /\ saved' = IF out_path # "" THEN last_frame ELSE NoFrame
    /\ cap_read' = "none"
    /\ shown' = NoFrame
    /\ prompted' = FALSE
    /\ appended' = NoFrame
    /\ appended_to' = NoWriter
    /\ NoFreezeRun
    /\ UNCHANGED <<fields, writers, cap_open, closed>>

\* toggle_recording with a stop that neither releases nor clears the writer
toggle_recording_leaks ==
    /\ ControlsUp
    /\ op' = "toggle_recording"
    /\ IF ~is_recording
       THEN /\ is_recording' = TRUE
            /\ record_btn' = "Stop Recording"
            /\ video_writer' = NoWriter
            /\ UNCHANGED writers
       ELSE /\ is_recording' = FALSE
            /\ record_btn' = "Start Recording"
            /\ UNCHANGED <<writers, video_writer>>
    /\ NoEffects
    /\ NoFreezeRun
    /\ UNCHANGED <<is_frozen, last_frame, zoom_factor, brightness, freeze_btn>>
    /\ UNCHANGED <<cap_open, closed, image_dialog>>

\* toggle_recording that releases on stop but never clears the handle
toggle_recording_keeps ==
    /\ ControlsUp
    /\ op' = "toggle_recording"
    /\ IF ~is_recording
       THEN /\ is_recording' = TRUE
            /\ record_btn' = "Stop Recording"
            /\ UNCHANGED <<writers, video_writer>>
       ELSE /\ is_recording' = FALSE
            /\ record_btn' = "Start Recording"
            /\ writers' = IF video_writer # NoWriter
                          THEN release(video_writer, "toggle_recording")
                          ELSE writers
            /\ UNCHANGED video_writer
    /\ NoEffects
    /\ NoFreezeRun
    /\ UNCHANGED <<is_frozen, last_frame, zoom_factor, brightness, freeze_btn>>
    /\ UNCHANGED <<cap_open, closed, image_dialog>>

\* lines 119-129
toggle_recording ==
    /\ ControlsUp
    /\ op' = "toggle_recording"
    /\ IF ~is_recording
       THEN /\ is_recording' = TRUE
            /\ record_btn' = "Stop Recording"
            /\ video_writer' = NoWriter
            /\ UNCHANGED writers
       ELSE /\ is_recording' = FALSE
            /\ record_btn' = "Start Recording"
            /\ IF video_writer # NoWriter
               THEN /\ writers' = release(video_writer, "toggle_recording")
                    /\ video_writer' = NoWriter
               ELSE UNCHANGED <<writers, video_writer>>
    /\ NoEffects
    /\ NoFreezeRun
    /\ UNCHANGED <<is_frozen, last_frame, zoom_factor, brightness, freeze_btn>>
    /\ UNCHANGED <<cap_open, closed, image_dialog>>

\* toggle_freeze that drops the stored frame when it unfreezes
toggle_freeze_drops_frame ==
    /\ ControlsUp
    /\ op' = "toggle_freeze"
    /\ is_frozen' = ~is_frozen
    /\ freeze_btn' = IF is_frozen' THEN "Unfreeze" ELSE "Freeze Frame"
    /\ last_frame' = IF is_frozen THEN NoFrame ELSE last_frame
    /\ NoEffects
    /\ fz_count' = IF fz_count = 1 THEN 2 ELSE 1
    /\ fz_snap' = IF fz_count = 1 THEN fz_snap ELSE <<fields, world>>
    /\ UNCHANGED <<is_recording, video_writer, zoom_factor, brightness,
                   record_btn>>
    /\ UNCHANGED world

\* toggle_freeze that labels the button from the flag's old value
toggle_freeze_stale_label ==
    /\ ControlsUp
    /\ op' = "toggle_freeze"
    /\ is_frozen' = ~is_frozen
    /\ freeze_btn' = IF is_frozen THEN "Unfreeze" ELSE "Freeze Frame"
    /\ NoEffects
    /\ fz_count' = IF fz_count = 1 THEN 2 ELSE 1
    /\ fz_snap' = IF fz_count = 1 THEN fz_snap ELSE <<fields, world>>
    /\ UNCHANGED <<last_frame, is_recording, video_writer, zoom_factor,
                   brightness, record_btn>>
    /\ UNCHANGED world

\* lines 131-133
toggle_freeze ==
    /\ ControlsUp
    /\ op' = "toggle_freeze"
    /\ is_frozen' = ~is_frozen
    /\ freeze_btn' = IF is_frozen' THEN "Unfreeze" ELSE "Freeze Frame"
    /\ NoEffects
    /\ fz_count' = IF fz_count = 1 THEN 2 ELSE 1
    /\ fz_snap' = IF fz_count = 1 THEN fz_snap ELSE <<fields, world>>
    /\ UNCHANGED <<last_frame, is_recording, video_writer, zoom_factor,
                   brightness, record_btn>>
    /\ UNCHANGED world

\* the values the brightness slider is moved to
BrightnessInputs == {BrightMin, -BrightTick, 0, BrightTick, BrightMax}

\* lines 135-136; valueChanged comes with a value other than the present one
update_zoom ==
    /\ ControlsUp
    /\ op' = "update_zoom"
    /\ \E value \in (ZoomMin..ZoomMax) \ {zoom_factor} : zoom_factor' = value
    /\ NoEffects
    /\ NoFreezeRun
    /\ UNCHANGED <<is_frozen, last_frame, is_recording, video_writer,
                   brightness, record_btn, freeze_btn>>
    /\ UNCHANGED world

\* lines 148-149
update_brightness ==
    /\ ControlsUp
    /\ op' = "update_brightness"
    /\ \E value \in BrightnessInputs \ {brightness} : brightness' = value
    /\ NoEffects
    /\ NoFreezeRun
    /\ UNCHANGED <<is_frozen, last_frame, is_recording, video_writer,
                   zoom_factor, record_btn, freeze_btn>>
    /\ UNCHANGED world

\* closeEvent that releases the device only
closeEvent_device_only ==
    /\ ControlsUp
    /\ op' = "closeEvent"
    /\ cap_open' = FALSE
    /\ closed' = TRUE
    /\ NoEffects
    /\ NoFreezeRun
    /\ UNCHANGED <<fields, writers, image_dialog>>

\* lines 156-160
closeEvent ==
    /\ ControlsUp
    /\ op' = "closeEvent"
    /\ cap_open' = FALSE
    /\ writers' = IF video_writer # NoWriter
                  THEN release(video_writer, "closeEvent")
                  ELSE writers
    /\ closed' = TRUE
    /\ NoEffects
    /\ NoFreezeRun
    /\ UNCHANGED <<fields, image_dialog>>

Next ==
    \/ update_frame
    \/ capture_image
    \/ capture_image_return
    \/ toggle_recording
    \/ toggle_freeze
    \/ update_zoom
    \/ update_brightness
    \/ closeEvent

Spec == Init /\ [][Next]_vars

\* ------------------------------------- the brightness transform on its own
\* every offset of the slider against every byte value, on a one-pixel frame
InitBrightness ==
    /\ brightness \in BrightMin..BrightMax
    /\ \E v \in 0..255 : last_frame = << << <<v, 255 - v, v>> >> >>
    /\ is_frozen = FALSE
    /\ is_recording = FALSE
    /\ video_writer = NoWriter
    /\ zoom_factor = 1
    /\ record_btn = "Start Recording"
    /\ freeze_btn = "Freeze Frame"
    /\ writers = <<>>
    /\ cap_open = TRUE
    /\ closed = FALSE
    /\ image_dialog = FALSE
    /\ op = "init"
    /\ cap_read = "none"
    /\ shown = NoFrame
    /\ prompted = FALSE
    /\ dialog_path = ""
    /\ appended = NoFrame
    /\ appended_to = NoWriter
    /\ saved = NoFrame
    /\ fz_count = 0
    /\ fz_snap = <<>>

\* line 84, the result kept in shown
brightness_step ==
    /\ op = "init"
    /\ op' = "apply_brightness"
    /\ shown' = apply_brightness(last_frame)
    /\ UNCHANGED <<fields, world, history>>
    /\ UNCHANGED <<cap_read, prompted, dialog_path, appended, appended_to, saved>>

NextBrightness == brightness_step

SpecBrightness == InitBrightness /\ [][NextBrightness]_vars

\* ------------------------------------------- the zoom transform on its own
TestFrame(h, w) ==
    [y \in 1..h |-> [x \in 1..w |-> [c \in 1..3 |-> Sample(1, y, x, c)]]]

\* every zoom factor of the slider against frames of every small size
InitZoom ==
    /\ zoom_factor \in ZoomMin..ZoomMax
    /\ \E h \in 1..MaxDim, w \in 1..MaxDim : last_frame = TestFrame(h, w)
    /\ brightness = 0
    /\ is_frozen = FALSE
    /\ is_recording = FALSE
    /\ video_writer = NoWriter
    /\ record_btn = "Start Recording"
    /\ freeze_btn = "Freeze Frame"
    /\ writers = <<>>
    /\ cap_open = TRUE
    /\ closed = FALSE
    /\ image_dialog = FALSE
    /\ op = "init"
    /\ cap_read = "none"
    /\ shown = NoFrame
    /\ prompted = FALSE
    /\ dialog_path = ""
    /\ appended = NoFrame
    /\ appended_to = NoWriter
    /\ saved = NoFrame
    /\ fz_count = 0
    /\ fz_snap = <<>>

\* line 82, the result kept in shown
zoom_step ==
    /\ op = "init"
    /\ op' = "apply_zoom"
    /\ shown' = apply_zoom(last_frame)
    /\ UNCHANGED <<fields, world, history>>
    /\ UNCHANGED <<cap_read, prompted, dialog_path, appended, appended_to, saved>>

NextZoom == zoom_step

SpecZoom == InitZoom /\ [][NextZoom]_vars

\* ----------------------------------------------------------------- claims
\* what update_frame shows for a stored frame under the present settings
Display(frame) == cvtColor(apply_brightness(apply_zoom(frame)))

\* C1: every frame update_frame appends to the video writer is the raw
\* Current frame, equal to last_frame, whatever the zoom and the brightness.
C1_AppendsRawFrame ==
    (op = "update_frame" /\ appended # NoFrame) => appended = last_frame

\* C2: apply_brightness gives clamp(v + b, 0, 255) for every sample v in
\* 0..255 and every offset b in -100..100.
C2_BrightnessClamps ==
    op = "apply_brightness" =>
        \A c \in 1..3 :
            shown[1][1][c] = Min(Max(last_frame[1][1][c] + brightness, 0), 255)
NoOpenWriter == \A w \in 1..Len(writers) : ~writers[w].open

\* C3: the record toggle pressed while recording, awaiting a file or active,
\* sets the state to not-recording, releases the open writer if there is one
\* and clears the handle; right after a stop no writer is open.
C3_StopReleasesWriter ==
    [][(op' = "toggle_recording" /\ is_recording) =>
            /\ ~is_recording'
            /\ video_writer' = NoWriter
            /\ video_writer # NoWriter => ~writers'[video_writer].open
            /\ NoOpenWriter']_vars

C3_Witness ==
    /\ op = "toggle_recording"
    /\ ~is_recording
    /\ Len(writers) > 0
    /\ writers[Len(writers)].by = "toggle_recording"

\* C4: when the Save Video dialog of the tick after a start is cancelled, the
\* tick ends not recording, with no writer handle and no writer open, with no
\* frame appended and the record button reading "Start Recording".
C4_CancelReverts ==
    (op = "update_frame" /\ prompted /\ dialog_path = "") =>
        /\ ~is_recording
        /\ video_writer = NoWriter
        /\ NoOpenWriter
        /\ appended = NoFrame
        /\ record_btn = "Start Recording"

C4_Witness ==
    /\ op = "update_frame"
    /\ prompted
    /\ dialog_path = ""
    /\ shown # NoFrame

\* C5: once a writer exists, no tick replaces the handle, creates a writer or
\* shows the dialog again, and only the stop toggle changes the handle, to
\* none, whatever zoom, brightness, freeze or capture events come in between.
C5_WriterFixedInSession ==
    [][video_writer # NoWriter =>
            /\ op' = "update_frame" =>
                    /\ ~prompted'
                    /\ video_writer' = video_writer
                    /\ Len(writers') = Len(writers)
            /\ video_writer' # video_writer =>
                    /\ op' = "toggle_recording"
                    /\ is_recording
                    /\ video_writer' = NoWriter]_vars

C5_Witness ==
    /\ op = "update_frame"
    /\ ~prompted
    /\ appended # NoFrame
    /\ appended_to = video_writer
    /\ zoom_factor > 1
    /\ is_frozen

\* C6: after a stop and a new start, the tick that reaches the recording step
\* shows the dialog and, given a path, writes to a writer created on that
\* tick; no frame is ever written to a writer that a stop released.
C6_FreshWriterAfterRestart ==
    /\ [](appended # NoFrame => writers[appended_to].by # "toggle_recording")
    /\ [][(op' = "update_frame" /\ shown' # NoFrame
                /\ is_recording /\ video_writer = NoWriter) =>
            /\ prompted'
            /\ dialog_path' # "" =>
                    /\ video_writer' > Len(writers)
                    /\ writers'[video_writer'].open
                    /\ appended_to' = video_writer']_vars

C6_Witness ==
    /\ op = "update_frame"
    /\ prompted
    /\ appended_to = 2
    /\ writers[1].by = "toggle_recording"
    /\ writers[2].open

\* C7: a tick whose read fails changes no field, no writer and no label, shows
\* no frame and no dialog and appends nothing, also while recording.
C7_FailedReadChangesNothing ==
    [][(op' = "update_frame" /\ cap_read' = "fail") =>
            /\ UNCHANGED <<fields, world>>
            /\ shown' = NoFrame
            /\ ~prompted'
            /\ appended' = NoFrame
            /\ saved' = NoFrame]_vars

C7_Witness ==
    /\ op = "update_frame"
    /\ cap_read = "fail"
    /\ is_recording
    /\ video_writer # NoWriter
    /\ last_frame # NoFrame

C10_FreezeTwiceRestores ==
    /\ []((freeze_btn = "Unfreeze") <=> is_frozen)
    /\ []((freeze_btn = "Freeze Frame") <=> ~is_frozen)
    /\ [](fz_count = 2 => <<fields, world>> = fz_snap)
    /\ [][(op' = "update_frame" /\ fz_count = 2 /\ ~is_frozen) =>
            cap_read' \in {"ok", "fail"}]_vars

C10_Witness ==
    /\ fz_count = 2
    /\ ~is_frozen
    /\ last_frame # NoFrame
    /\ is_recording

\* C11: the capture button pressed while no frame has ever been stored shows
\* no dialog, writes no file and changes no state.
C11_CaptureWithoutFrame ==
    [][(op' = "capture_image" /\ last_frame = NoFrame) =>
            /\ ~image_dialog'
            /\ saved' = NoFrame
            /\ ~prompted'
            /\ UNCHANGED <<fields, world>>]_vars

C11_Witness ==
    /\ op = "capture_image"
    /\ last_frame = NoFrame
    /\ ~image_dialog
    /\ is_recording
    /\ is_frozen

\* C12: with a frame stored, the capture button given a path writes the raw
\* Current frame, last_frame as it stands when the dialog returns, whatever
\* the zoom and the brightness; cancelled, it writes nothing; neither the
\* press nor the return changes a field, a writer or the device.
C12_CaptureWritesRaw ==
    [][/\ op' = "capture_image_return" =>
            /\ saved' = IF dialog_path' # "" THEN last_frame ELSE NoFrame
            /\ UNCHANGED <<fields, writers, cap_open, closed>>
       /\ op' = "capture_image" =>
            /\ saved' = NoFrame
            /\ image_dialog' = (last_frame # NoFrame)
            /\ UNCHANGED <<fields, writers, cap_open, closed>>]_vars

C12_Witness ==
    /\ op = "capture_image_return"
    /\ saved = last_frame
    /\ saved # NoFrame
    /\ zoom_factor > 1
    /\ brightness # 0

ZoomGeometry ==
    LET H == Height(last_frame)
        W == Width(last_frame)
        f == zoom_factor
        box == crop_box(last_frame)
    IN  /\ box.nh = H \div f
        /\ box.nw = W \div f
        /\ box.y1 = (H - H \div f) \div 2
        /\ box.x1 = (W - W \div f) \div 2
        /\ box.y1 >= 0 /\ box.y1 + box.nh <= H
        /\ box.x1 >= 0 /\ box.x1 + box.nw <= W
        /\ Abs(box.y1 - (H - box.nh - box.y1)) <= 1
        /\ Abs(box.x1 - (W - box.nw - box.x1)) <= 1
        /\ shown # NoFrame
        /\ Height(shown) = H
        /\ Width(shown) = W

\* C14 as stated: for every zoom factor 2, 3, 4 and every frame the crop is
\* the centred (H div f, W div f) region and the output is H by W.
C14_ZoomCropsCentre ==
    (op = "apply_zoom" /\ zoom_factor > 1) => ZoomGeometry

\* C14 amended: the same for every frame with H >= f and W >= f.
C14_ZoomCropsCentreOfLargeEnough ==
    (op = "apply_zoom" /\ zoom_factor > 1
        /\ Height(last_frame) >= zoom_factor
        /\ Width(last_frame) >= zoom_factor) => ZoomGeometry

C14_Witness ==
    /\ op = "apply_zoom"
    /\ zoom_factor = 3
    /\ Height(last_frame) = 5
    /\ Width(last_frame) = 4
    /\ Height(shown) = 5
    /\ Width(shown) = 4

FrameSize(frame) == <<Width(frame), Height(frame)>>

\* C15: the writer a tick writes to was created with the (width, height) of
\* the raw captured frame, whatever the zoom and the brightness, and every
\* frame appended to it has that size, the device's frame size being fixed.
C15_WriterHasRawFrameSize ==
    (op = "update_frame" /\ appended # NoFrame) =>
        /\ writers[appended_to].size = FrameSize(last_frame)
        /\ FrameSize(appended) = writers[appended_to].size
        /\ writers[appended_to].size = <<FrameW, FrameH>>

C15_Witness ==
    /\ op = "update_frame"
    /\ appended # NoFrame
    /\ ~prompted
    /\ zoom_factor = ZoomMax
    /\ brightness # 0
    /\ writers[appended_to].size = <<FrameW, FrameH>>

\* C16: the close handler releases the capture device, releases the video
\* writer exactly when one is held, which is then the only open one, and
\* changes no field of the widget.
C16_CloseReleases ==
    [][op' = "closeEvent" =>
            /\ ~cap_open'
            /\ Len(writers') = Len(writers)
            /\ \A w \in 1..Len(writers) :
                    writers'[w].open = (writers[w].open /\ w # video_writer)
            /\ \A w \in 1..Len(writers) :
                    writers[w].open => w = video_writer
            /\ NoOpenWriter'
            /\ UNCHANGED <<fields, image_dialog>>]_vars

C16_Witness ==
    /\ op = "closeEvent"
    /\ ~cap_open
    /\ video_writer # NoWriter
    /\ writers[video_writer].by = "closeEvent"
    /\ Len(writers) = 2
    /\ writers[1].by = "toggle_recording"

\* C17: the record button reads "Stop Recording" exactly when recording is
\* on and "Start Recording" exactly when it is off, a cancelled Save Video
\* dialog included.
C17_RecordLabelTracksState ==
    /\ (record_btn = "Stop Recording") <=> is_recording
    /\ (record_btn = "Start Recording") <=> ~is_recording

C17_Witness ==
    /\ op = "update_frame"
    /\ prompted
    /\ dialog_path = ""
    /\ record_btn = "Start Recording"
    /\ is_frozen
    /\ Len(writers) > 0

\* C18: with zoom factor 1 and brightness 0 the frame a tick shows has the
\* size of the Current frame and each of its pixels is that frame's pixel
\* with the first and third channels exchanged.
C18_IdentityDisplay ==
    (op = "update_frame" /\ shown # NoFrame
        /\ zoom_factor = 1 /\ brightness = 0) =>
        /\ Height(shown) = Height(last_frame)
        /\ Width(shown) = Width(last_frame)
        /\ \A y \in 1..Height(shown), x \in 1..Width(shown) :
            shown[y][x] = <<last_frame[y][x][3], last_frame[y][x][2],
                            last_frame[y][x][1]>>

C18_Witness ==
    /\ op = "update_frame"
    /\ shown # NoFrame
    /\ zoom_factor = 1
    /\ brightness = 0
    /\ shown # last_frame
    /\ cap_read = "ok"

\* C19: before the window is closed a writer handle is held only while
\* recording is on, and with recording off no writer is open at all, so the
\* start branch of the record toggle never drops an unreleased writer.
C19_WriterOnlyWhileRecording ==
    (~closed /\ ~is_recording) => (video_writer = NoWriter /\ NoOpenWriter)

C19_Witness ==
    /\ ~closed
    /\ op = "toggle_recording"
    /\ is_recording
    /\ video_writer = NoWriter
    /\ Len(writers) > 0
    /\ NoOpenWriter

\* C20: no tick appends a frame to a writer that has been released, and no
\* tick reads the capture device after it has been released.
C20_NoUseAfterRelease ==
    op = "update_frame" =>
        /\ appended # NoFrame => writers[appended_to].open
        /\ cap_read # "none" => cap_open
====
